---- MODULE Spec2Model ----
(***************************************************************************)
(* A model of src/app.py: the Flask handler execute_python, which writes   *)
(* a submitted source text into a temporary file, runs it under a          *)
(* deadline, lints it with flake8, formats the diagnostics, removes the    *)
(* file and answers with {output, error, lint_feedback}.                   *)
(*                                                                         *)
(* Text is modelled as a sequence of tokens.  A token is either one        *)
(* character (" ", "\n", ":", "a", "1", ...) or a fragment of a literal of  *)
(* the source that holds no whitespace at its ends ("seconds.").  Python's *)
(* str methods (strip, split, join, in) are modelled on token sequences.   *)
(***************************************************************************)
EXTENDS Integers, Sequences, FiniteSets, TLC

(***************************************************************************)
(* Bounds of the model.                                                    *)
(***************************************************************************)
\* longest linter stdout (in tokens) enumerated for the formatter
MaxLintLen == 5
\* number of concurrently handled requests
NumProcs == 2
\* size of the temporary-file namespace
NumNames == 2

\* src/app.py:10
EXECUTION_TIMEOUT == 5

Procs == 1..NumProcs
Names == 1..NumNames

(***************************************************************************)
(* Python values.                                                          *)
(***************************************************************************)
\* Optional[str]: None is the empty set, a string s is {s}.
NoneStr == {}
Some(s) == {s}
IsNone(o) == o = {}
Val(o) == CHOOSE s \in o : TRUE
\* truthiness of an Optional[str] ("if lint_stdout:")
Truthy(o) == o # {} /\ Val(o) # <<>>

\* temp_file_path = None
NoPath == 0
\* a name of the namespace that holds no file
Absent == <<"<absent>">>

Whitespace == {" ", "\n"}

\* str.lstrip()
RECURSIVE LStrip(_)
LStrip(s) ==
    IF s = <<>> THEN <<>>
    ELSE IF Head(s) \in Whitespace THEN LStrip(Tail(s)) ELSE s

\* str.rstrip()
RECURSIVE RStrip(_)
RStrip(s) ==
    IF s = <<>> THEN <<>>
    ELSE IF s[Len(s)] \in Whitespace THEN RStrip(SubSeq(s, 1, Len(s) - 1)) ELSE s

\* str.strip()
Strip(s) == RStrip(LStrip(s))

\* sub in s
Contains(s, sub) ==
    \E i \in 0..(Len(s) - Len(sub)) : SubSeq(s, i + 1, i + Len(sub)) = sub

\* index of the first token sep of s, 0 when there is none (str.find + 1)
RECURSIVE Find(_, _, _)
Find(s, sep, i) ==
    IF i > Len(s) THEN 0
    ELSE IF s[i] = sep THEN i ELSE Find(s, sep, i + 1)

\* s.split(sep, maxsplit); maxsplit = -1 splits at every sep
RECURSIVE Split(_, _, _)
Split(s, sep, maxsplit) ==
    LET i == Find(s, sep, 1) IN
    IF maxsplit = 0 \/ i = 0 THEN <<s>>
    ELSE <<SubSeq(s, 1, i - 1)>>
         \o Split(SubSeq(s, i + 1, Len(s)), sep, maxsplit - 1)

\* sep.join(parts)
RECURSIVE Join(_, _)
Join(sep, parts) ==
    IF parts = <<>> THEN <<>>
    ELSE IF Len(parts) = 1 THEN parts[1]
    ELSE parts[1] \o sep \o Join(sep, Tail(parts))

Digit == <<"1", "2", "3", "4", "5", "6", "7", "8", "9">>

\* str(n) of a natural number
RECURSIVE NatStr(_)
NatStr(n) ==
    IF n = 0 THEN <<"0">>
    ELSE IF n < 10 THEN <<Digit[n]>>
    ELSE NatStr(n \div 10) \o NatStr(n % 10)

\* str(n) of an int, as an f-string formats it
IntStr(n) == IF n < 0 THEN <<"-">> \o NatStr(0 - n) ELSE NatStr(n)

(***************************************************************************)
(* run_subprocess.                                                         *)
(*                                                                         *)
(* What the operating system did with the command is a record              *)
(*   [kind, stdout, stderr, code, reason]                                  *)
(* kind "exited": the process ran and ended with status code (negative     *)
(*   when a signal ended it), its streams decoded as text;                 *)
(* kind "undecodable": the process ran and ended with status code, but a   *)
(*   captured stream is not valid text: subprocess.run(text=True) raises   *)
(*   UnicodeDecodeError;                                                   *)
(* kind "timeout": the deadline passed, subprocess.TimeoutExpired;         *)
(* kind "launchfail": the command could not be started (OSError).          *)
(***************************************************************************)
Outcome(kind, out, err, rc, reason) ==
    [kind |-> kind, stdout |-> out, stderr |-> err, code |-> rc, reason |-> reason]

\* the (stdout, stderr, returncode) a call of run_subprocess returns
run_subprocess(oc, timeout) ==
    CASE oc.kind = "exited" ->
           [stdout |-> Some(oc.stdout), stderr |-> Some(oc.stderr),
            returncode |-> oc.code]
      [] oc.kind = "timeout" ->
           [stdout |-> NoneStr,
            stderr |-> Some(<<"Execution timed out after", " ">> \o IntStr(timeout)
                            \o <<" ", "seconds.">>),
            returncode |-> -1]
      [] OTHER ->
           [stdout |-> NoneStr,
            stderr |-> Some(<<"Error running subprocess:", " ">> \o oc.reason),
            returncode |-> -2]

\* f"Process exited with status code {return_code}."
error_msg(return_code) ==
    <<"Process exited with status code", " ">> \o IntStr(return_code) \o <<".">>

\* f"Timeout Error: Execution exceeded {EXECUTION_TIMEOUT} seconds. {error}"
TimeoutText(err) ==
    <<"Timeout Error: Execution exceeded", " ">> \o IntStr(EXECUTION_TIMEOUT)
    \o <<" ", "seconds.", " ">> \o err

\* f"Execution Error: Failed to run subprocess. {error}"
ExecutionErrorText(err) ==
    <<"Execution Error: Failed to run subprocess.", " ">> \o err

\* error after "error += exec_stderr" and the branch on return_code
ClassifyError(err, return_code) ==
    IF return_code = -1 THEN Strip(TimeoutText(err))
    ELSE IF return_code = -2 THEN Strip(ExecutionErrorText(err))
    ELSE IF return_code # 0 THEN
        IF ~Contains(err, error_msg(return_code))
        THEN Strip(error_msg(return_code) \o <<" ">> \o err)
        ELSE err
    ELSE err

\* output and error after the execution result has been mapped
MapExec(res, out0, err0) ==
    LET out == IF ~IsNone(res.stdout) THEN Val(res.stdout) ELSE out0
        err == IF ~IsNone(res.stderr) THEN err0 \o Val(res.stderr) ELSE err0
    IN  [output |-> out, error |-> ClassifyError(err, res.returncode)]

(***************************************************************************)
(* The lint formatting.                                                    *)
(***************************************************************************)
\* FormatLine with line.split(':') in place of line.split(':', 3): the variant
\* C6 is tested against
FormatLineSplitAll(line) ==
    LET parts == Split(line, ":", -1) IN
    IF Len(parts) = 4
    THEN <<"L">> \o parts[2] \o <<":">> \o parts[3] \o <<":", " ">> \o Strip(parts[4])
    ELSE line

\* one line of flake8's stdout, formatted
FormatLine(line) ==
    LET parts == Split(line, ":", 3) IN
    IF Len(parts) = 4
    THEN <<"L">> \o parts[2] \o <<":">> \o parts[3] \o <<":", " ">> \o Strip(parts[4])
    ELSE line

\* formatted_lines, for a truthy lint_stdout
FormattedLines(lint_stdout) ==
    LET lines == Split(Strip(lint_stdout), "\n", -1) IN
    [i \in 1..Len(lines) |-> FormatLine(lines[i])]

\* lint_feedback after the block "if lint_stdout:"
FormatStdout(lint_stdout, feedback0) ==
    IF Truthy(lint_stdout)
    THEN Join(<<"\n">>, FormattedLines(Val(lint_stdout)))
    ELSE feedback0

\* lint_feedback after the block "if lint_stderr:"
AppendFlake8Error(feedback, lint_stderr) ==
    IF Truthy(lint_stderr)
    THEN feedback \o Strip(<<"\n", "--- Flake8 Error ---", "\n">> \o Val(lint_stderr))
    ELSE feedback

\* error after the handler "except Exception as e"
ServerError(err, detail) ==
    err \o <<"\n", "Server Error during processing:", " ">> \o detail

\* the JSON body of the 200 response
Report(out, err, feedback) ==
    [output |-> Strip(out), error |-> Strip(err), lint_feedback |-> Strip(feedback)]

(***************************************************************************)
(* The state.  Every local of execute_python is a function of the request  *)
(* (Procs) that holds it; fs is the one thing the requests share.          *)
(***************************************************************************)
VARIABLES
    pc,              \* where each request's handler stands
    request,         \* the HTTP request: [is_json, body, has_key, code]
    code,            \* data.get('code')
    output,
    error,
    lint_feedback,
    temp_file_path,  \* NoPath or a name of fs
    exec_result,     \* (exec_stdout, exec_stderr, return_code)
    lint_result,     \* (lint_stdout, lint_stderr, lint_return_code)
    formatted_lines,
    response,        \* [status, body]
    fs,              \* the temporary directory: name -> content or Absent
    \* history, not read by the handler
    exec_truth,      \* what the execution subprocess really did
    events,          \* the steps each request has taken, in order
    owner,           \* name -> the request whose handler created the file
    touched,         \* per request: the owners of the files its steps used
    faults           \* per request: the exceptions raised inside the try block

vars == <<pc, request, code, output, error, lint_feedback, temp_file_path,
          exec_result, lint_result, formatted_lines, response, fs, exec_truth,
          events, owner, touched, faults>>

NoOutcome == Outcome("none", <<>>, <<>>, 0, <<>>)
NoResult == [stdout |-> NoneStr, stderr |-> NoneStr, returncode |-> 0]
NoResponse == [status |-> 0, body |-> [none |-> TRUE]]
NoCode == [type |-> "null", s |-> <<>>]
NoRequest == [is_json |-> FALSE, body |-> "none", has_key |-> FALSE, code |-> NoCode]

Init ==
    /\ pc = [p \in Procs |-> "idle"]
    /\ request = [p \in Procs |-> NoRequest]
    /\ code = [p \in Procs |-> NoCode]
    /\ output = [p \in Procs |-> <<>>]
    /\ error = [p \in Procs |-> <<>>]
    /\ lint_feedback = [p \in Procs |-> <<>>]
    /\ temp_file_path = [p \in Procs |-> NoPath]
    /\ exec_result = [p \in Procs |-> NoResult]
    /\ lint_result = [p \in Procs |-> NoResult]
    /\ formatted_lines = [p \in Procs |-> <<>>]
    /\ response = [p \in Procs |-> NoResponse]
    /\ fs = [n \in Names |-> Absent]
    /\ exec_truth = [p \in Procs |-> NoOutcome]
    /\ events = [p \in Procs |-> <<>>]
    /\ owner = [n \in Names |-> 0]
    /\ touched = [p \in Procs |-> {}]
    /\ faults = [p \in Procs |-> <<>>]

Locals == <<code, output, error, lint_feedback, temp_file_path, exec_result,
            lint_result, formatted_lines>>
History == <<exec_truth, events, owner, touched, faults>>

Log(p, e) == events' = [events EXCEPT ![p] = Append(@, e)]

\* a POST to /execute/python arrives
Receive(p, Requests) ==
    /\ pc[p] = "idle"
    /\ \E r \in Requests : request' = [request EXCEPT ![p] = r]
    /\ pc' = [pc EXCEPT ![p] = "boundary"]
    /\ UNCHANGED <<Locals, response, fs, History>>

ErrorBody(msg) == [error |-> msg]
\* what Flask answers when the view did not return: an HTML error page
HtmlBody == [html |-> TRUE]

\* is_json, get_json(), data.get('code'), and the initialisation of the locals
Boundary(p) ==
    /\ pc[p] = "boundary"
    /\ LET r == request[p] IN
       IF ~r.is_json THEN
           /\ response' = [response EXCEPT ![p] =
                  [status |-> 400, body |-> ErrorBody(<<"Request must be JSON">>)]]
           /\ pc' = [pc EXCEPT ![p] = "done"]
           /\ UNCHANGED code
       ELSE IF r.body = "invalid" THEN
           \* get_json() raises BadRequest
           /\ response' = [response EXCEPT ![p] = [status |-> 400, body |-> HtmlBody]]
           /\ pc' = [pc EXCEPT ![p] = "done"]
           /\ UNCHANGED code
       ELSE IF r.body # "object" THEN
           \* data is a list, None, a str or a number: data.get raises AttributeError
           /\ response' = [response EXCEPT ![p] = [status |-> 500, body |-> HtmlBody]]
           /\ pc' = [pc EXCEPT ![p] = "done"]
           /\ UNCHANGED code
       ELSE IF r.code.type = "null" THEN
           /\ response' = [response EXCEPT ![p] =
                  [status |-> 400,
                   body |-> ErrorBody(<<"Missing 'code' field in JSON payload">>)]]
           /\ pc' = [pc EXCEPT ![p] = "done"]
           /\ UNCHANGED code
       ELSE
           /\ code' = [code EXCEPT ![p] = r.code]
           /\ pc' = [pc EXCEPT ![p] = "create"]
           /\ UNCHANGED response
    /\ output' = [output EXCEPT ![p] = <<>>]
    /\ error' = [error EXCEPT ![p] = <<>>]
    /\ lint_feedback' = [lint_feedback EXCEPT ![p] = <<>>]
    /\ temp_file_path' = [temp_file_path EXCEPT ![p] = NoPath]
    /\ UNCHANGED <<request, exec_result, lint_result, formatted_lines, fs, History>>

\* a name generator that may return a name in use: the variant C10 is tested
\* against
AnyName(files) == Names

\* the names tempfile may return: it opens the file with O_EXCL
FreshNames(files) == {n \in Names : files[n] = Absent}

\* a handler without the except clause, the fault leaving execute_python: the
\* variant C3 is tested against
ExceptPropagates(p, detail) ==
    /\ error' = error
    /\ faults' = [faults EXCEPT ![p] = Append(@, [detail |-> detail, error |-> error[p]])]
    /\ pc' = [pc EXCEPT ![p] = "done"]

\* the handler "except Exception as e": the fault becomes error text
Except(p, detail) ==
    /\ error' = [error EXCEPT ![p] = ServerError(@, detail)]
    /\ faults' = [faults EXCEPT ![p] = Append(@, [detail |-> detail, error |-> error[p]])]
    /\ pc' = [pc EXCEPT ![p] = "cleanup"]

NoSpace == <<"[Errno 28] No space left on device">>
NotStr == <<"write() argument must be str, not int">>

\* tempfile.NamedTemporaryFile(...) and temp_file_path = temp_file.name
Create(p) ==
    /\ pc[p] = "create"
    /\ \/ \E n \in FreshNames(fs) :
             /\ fs' = [fs EXCEPT ![n] = <<>>]
             /\ owner' = [owner EXCEPT ![n] = p]
             /\ temp_file_path' = [temp_file_path EXCEPT ![p] = n]
             /\ pc' = [pc EXCEPT ![p] = "write"]
             /\ Log(p, "acquire")
             /\ UNCHANGED <<error, faults>>
       \/ /\ Except(p, NoSpace)
          /\ Log(p, "create_failed")
          /\ UNCHANGED <<fs, owner, temp_file_path>>
    /\ UNCHANGED <<request, code, output, lint_feedback, exec_result, lint_result,
                   formatted_lines, response, exec_truth, touched>>

\* temp_file.write(code) and the close of the file
Write(p) ==
    /\ pc[p] = "write"
    /\ LET n == temp_file_path[p] IN
       IF code[p].type # "str" THEN
           /\ Except(p, NotStr)
           /\ UNCHANGED fs
       ELSE
           \/ /\ fs' = [fs EXCEPT ![n] = code[p].s]
              /\ pc' = [pc EXCEPT ![p] = "exec"]
              /\ UNCHANGED <<error, faults>>
           \/ \E k \in {0} \cup 0..(Len(code[p].s) - 1) :
                 /\ fs' = [fs EXCEPT ![n] = SubSeq(code[p].s, 1, k)]
                 /\ Except(p, NoSpace)
    /\ touched' = [touched EXCEPT ![p] = @ \cup {owner[temp_file_path[p]]}]
    /\ UNCHANGED <<request, code, output, lint_feedback, temp_file_path, exec_result,
                   lint_result, formatted_lines, response, exec_truth, events, owner>>

\* an execution call after which a timeout ends the submission without the lint
\* run: the variant C9 is tested against
ExecReturnsNoLintOnTimeout(p, oc) ==
    LET res == run_subprocess(oc, EXECUTION_TIMEOUT)
        m == MapExec(res, output[p], error[p])
    IN  /\ exec_truth' = [exec_truth EXCEPT ![p] = oc]
        /\ exec_result' = [exec_result EXCEPT ![p] = res]
        /\ output' = [output EXCEPT ![p] = m.output]
        /\ error' = [error EXCEPT ![p] = m.error]
        /\ pc' = [pc EXCEPT ![p] = IF oc.kind = "timeout" THEN "cleanup" ELSE "lint"]

\* run_subprocess has returned to the execution call; output and error are mapped
ExecReturns(p, oc) ==
    LET res == run_subprocess(oc, EXECUTION_TIMEOUT)
        m == MapExec(res, output[p], error[p])
    IN  /\ exec_truth' = [exec_truth EXCEPT ![p] = oc]
        /\ exec_result' = [exec_result EXCEPT ![p] = res]
        /\ output' = [output EXCEPT ![p] = m.output]
        /\ error' = [error EXCEPT ![p] = m.error]
        /\ pc' = [pc EXCEPT ![p] = "lint"]

NoPython == <<"[Errno 2] No such file or directory: 'python'">>
NoFlake8 == <<"[Errno 2] No such file or directory: 'flake8'">>
BadBytes == <<"'utf-8' codec can't decode byte 0xff">>

\* run_subprocess(['python', temp_file_path], timeout=EXECUTION_TIMEOUT) is called:
\* the interpreter starts on the file, or cannot be started
StartExec(p) ==
    /\ pc[p] = "exec"
    /\ \/ /\ pc' = [pc EXCEPT ![p] = "executing"]
          /\ events' = [events EXCEPT ![p] = Append(@, "execute")]
          /\ UNCHANGED <<exec_truth, exec_result, output, error>>
       \/ /\ ExecReturns(p, Outcome("launchfail", <<>>, <<>>, 0, NoPython))
          /\ events' = [events EXCEPT ![p] = @ \o <<"execute", "executed">>]
    /\ touched' = [touched EXCEPT ![p] = @ \cup {owner[temp_file_path[p]]}]
    /\ UNCHANGED <<request, code, lint_feedback, temp_file_path, lint_result,
                   formatted_lines, response, fs, owner, faults>>

\* the submission ends, or the deadline passes
FinishExec(p, Execs) ==
    /\ pc[p] = "executing"
    /\ \E oc \in Execs : ExecReturns(p, oc)
    /\ Log(p, "executed")
    /\ UNCHANGED <<request, code, lint_feedback, temp_file_path, lint_result,
                   formatted_lines, response, fs, owner, touched, faults>>

\* run_subprocess(lint_command): no deadline
NoTimeout == 0

\* run_subprocess has returned to the lint call; lint_feedback is built
LintReturns(p, oc) ==
    LET res == run_subprocess(oc, NoTimeout) IN
    /\ lint_result' = [lint_result EXCEPT ![p] = res]
    /\ formatted_lines' = [formatted_lines EXCEPT ![p] =
           IF Truthy(res.stdout) THEN FormattedLines(Val(res.stdout)) ELSE @]
    /\ lint_feedback' = [lint_feedback EXCEPT ![p] =
           AppendFlake8Error(FormatStdout(res.stdout, @), res.stderr)]
    /\ pc' = [pc EXCEPT ![p] = "cleanup"]

\* run_subprocess(['flake8', temp_file_path]) is called
StartLint(p) ==
    /\ pc[p] = "lint"
    /\ \/ /\ pc' = [pc EXCEPT ![p] = "linting"]
          /\ events' = [events EXCEPT ![p] = Append(@, "lint")]
          /\ UNCHANGED <<lint_result, formatted_lines, lint_feedback>>
       \/ /\ LintReturns(p, Outcome("launchfail", <<>>, <<>>, 0, NoFlake8))
          /\ events' = [events EXCEPT ![p] = @ \o <<"lint", "linted">>]
    /\ touched' = [touched EXCEPT ![p] = @ \cup {owner[temp_file_path[p]]}]
    /\ UNCHANGED <<request, code, output, error, temp_file_path, exec_result,
                   response, fs, exec_truth, owner, faults>>

\* flake8 ends
FinishLint(p, Lints) ==
    /\ pc[p] = "linting"
    /\ \E oc \in Lints : LintReturns(p, oc)
    /\ Log(p, "linted")
    /\ UNCHANGED <<request, code, output, error, temp_file_path, exec_result,
                   response, fs, exec_truth, owner, touched, faults>>

\* the removal at the end of the try body instead of a finally block, skipped
\* when a fault was raised: the variant C1 is tested against
CleanupUnlessFault(p) ==
    /\ pc[p] = "cleanup"
    /\ LET n == temp_file_path[p] IN
       IF n # NoPath /\ fs[n] # Absent /\ faults[p] = <<>> THEN
           \/ /\ fs' = [fs EXCEPT ![n] = Absent]
              /\ touched' = [touched EXCEPT ![p] = @ \cup {owner[n]}]
              /\ owner' = [owner EXCEPT ![n] = 0]
              /\ Log(p, "release")
           \/ /\ Log(p, "release_failed")
              /\ UNCHANGED <<fs, owner, touched>>
       ELSE UNCHANGED <<fs, owner, touched, events>>
    /\ pc' = [pc EXCEPT ![p] = "respond"]
    /\ UNCHANGED <<request, Locals, response, exec_truth, faults>>

\* the finally block: os.path.exists and os.remove
Cleanup(p) ==
    /\ pc[p] = "cleanup"
    /\ LET n == temp_file_path[p] IN
       IF n # NoPath /\ fs[n] # Absent THEN
           \/ /\ fs' = [fs EXCEPT ![n] = Absent]
              /\ touched' = [touched EXCEPT ![p] = @ \cup {owner[n]}]
              /\ owner' = [owner EXCEPT ![n] = 0]
              /\ Log(p, "release")
           \/ \* os.remove raises: a warning is printed
              /\ Log(p, "release_failed")
              /\ UNCHANGED <<fs, owner, touched>>
       ELSE UNCHANGED <<fs, owner, touched, events>>
    /\ pc' = [pc EXCEPT ![p] = "respond"]
    /\ UNCHANGED <<request, Locals, response, exec_truth, faults>>

\* return jsonify({...})
Respond(p) ==
    /\ pc[p] = "respond"
    /\ response' = [response EXCEPT ![p] =
           [status |-> 200,
            body |-> Report(output[p], error[p], lint_feedback[p])]]
    /\ pc' = [pc EXCEPT ![p] = "done"]
    /\ Log(p, "respond")
    /\ UNCHANGED <<request, Locals, fs, exec_truth, owner, touched, faults>>

(***************************************************************************)
(* The inputs.                                                             *)
(***************************************************************************)
Req(is_json, body, has_key, c) ==
    [is_json |-> is_json, body |-> body, has_key |-> has_key, code |-> c]
StrCode(s) == [type |-> "str", s |-> s]
IntCode == [type |-> "int", s |-> <<>>]

\* body: "invalid" is not JSON; "null", "array", "string" and "object" are the
\* JSON value get_json() returns
Codes == {<<>>, <<"x=1">>, <<"print('hi')", "\n">>}
Requests ==
    {Req(FALSE, "invalid", FALSE, NoCode), Req(FALSE, "object", TRUE, StrCode(<<"x=1">>)),
     Req(TRUE, "invalid", FALSE, NoCode), Req(TRUE, "null", FALSE, NoCode),
     Req(TRUE, "array", FALSE, NoCode), Req(TRUE, "string", FALSE, NoCode),
     Req(TRUE, "object", FALSE, NoCode), Req(TRUE, "object", TRUE, NoCode),
     Req(TRUE, "object", TRUE, IntCode)}
    \cup {Req(TRUE, "object", TRUE, StrCode(c)) : c \in Codes}

\* status codes of a process: 0, failures, and deaths from signals 1, 2 and 9
ExitCodes == {0, 1, 2, -1, -2, -9}
Stdouts == {<<>>, <<"hi", "\n">>}
Stderrs ==
    {<<>>, <<"Traceback", "\n">>, error_msg(1), error_msg(-1),
     <<"x", " ">> \o error_msg(1) \o <<"\n">>}
Execs ==
    {Outcome("exited", o, e, c, <<>>) : o \in Stdouts, e \in Stderrs, c \in ExitCodes}
    \cup {Outcome("undecodable", <<>>, <<>>, c, BadBytes) : c \in {0, 1}}
    \cup {Outcome("timeout", <<>>, <<>>, 0, <<>>)}

Diag1 == <<"f", ":", "1", ":", "2", ":", " ", "E225", "\n">>
Diag2 == <<"f", ":", "3", ":", "1", ":", " ", "W", ":", "x", "\n">>
LintStdouts == {<<>>, Diag1, Diag1 \o Diag2, <<"oops", "\n">>}
LintStderrs == {<<>>, <<"warn", "\n">>}
Lints ==
    {Outcome("exited", o, e, c, <<>>) : o \in LintStdouts, e \in LintStderrs, c \in {0, 1}}
    \cup {Outcome("undecodable", <<>>, <<>>, 1, BadBytes)}

Next ==
    \/ Receive(1, Requests)
    \/ Boundary(1)
    \/ Create(1)
    \/ Write(1)
    \/ StartExec(1)
    \/ FinishExec(1, Execs)
    \/ StartLint(1)
    \/ FinishLint(1, Lints)
    \/ Cleanup(1)
    \/ Respond(1)

Spec == Init /\ [][Next]_vars

(***************************************************************************)
(* The formatter on every linter stdout of at most MaxLintLen tokens.      *)
(***************************************************************************)
LintAlphabet == {"f", ":", " ", "\n"}
RECURSIVE Strs(_, _)
Strs(A, n) ==
    IF n = 0 THEN {<<>>}
    ELSE LET S == Strs(A, n - 1) IN S \cup {Append(s, a) : s \in S, a \in A}

FmtRequests == {Req(TRUE, "object", TRUE, StrCode(<<"x=1">>))}
FmtExecs == {Outcome("exited", <<>>, <<>>, 0, <<>>)}
FmtLints ==
    {Outcome("exited", o, e, 1, <<>>) : o \in Strs(LintAlphabet, MaxLintLen),
                                        e \in {<<>>, <<"warn">>}}

NextFmt ==
    \/ Receive(1, FmtRequests)
    \/ Boundary(1)
    \/ Create(1)
    \/ Write(1)
    \/ StartExec(1)
    \/ FinishExec(1, FmtExecs)
    \/ StartLint(1)
    \/ FinishLint(1, FmtLints)
    \/ Cleanup(1)
    \/ Respond(1)

SpecFmt == Init /\ [][NextFmt]_vars

(***************************************************************************)
(* Requests handled concurrently (one handler per request, as under a      *)
(* threaded or multi-process server).                                      *)
(***************************************************************************)
ConcRequests ==
    {Req(FALSE, "invalid", FALSE, NoCode), Req(TRUE, "object", TRUE, IntCode),
     Req(TRUE, "object", TRUE, StrCode(<<"x=1">>))}
ConcExecs == {Outcome("timeout", <<>>, <<>>, 0, <<>>)}
ConcLints == {Outcome("exited", Diag1, <<>>, 1, <<>>)}

NextConc ==
    \E p \in Procs :
        \/ Receive(p, ConcRequests)
        \/ Boundary(p)
        \/ Create(p)
        \/ Write(p)
        \/ StartExec(p)
        \/ FinishExec(p, ConcExecs)
        \/ StartLint(p)
        \/ FinishLint(p, ConcLints)
        \/ Cleanup(p)
        \/ Respond(p)

SpecConc == Init /\ [][NextConc]_vars

(***************************************************************************)
(* The properties.                                                         *)
(***************************************************************************)
\* the number of times e occurs in the sequence es
Count(es, e) == Cardinality({i \in 1..Len(es) : es[i] = e})
\* the places of e in es
Places(es, e) == {i \in 1..Len(es) : es[i] = e}
\* every a of es comes before every b of es
Before(es, a, b) == \A i \in Places(es, a), j \in Places(es, b) : i < j

\* the request is a JSON body with a 'code' field that is not null
PassedBoundary(p) ==
    /\ request[p].is_json
    /\ request[p].body = "object"
    /\ request[p].has_key
    /\ request[p].code.type # "null"

Returned(p) == pc[p] = "done"

\* the file the handler of p created is gone
FileGone(p) == temp_file_path[p] # NoPath /\ fs[temp_file_path[p]] = Absent

\* C1 as stated: every request that passes the boundary checks has created
\* exactly one temporary file when execute_python returns, and the file no
\* longer exists.
C1_AlwaysOneFileRemoved ==
    \A p \in Procs :
        Returned(p) /\ PassedBoundary(p) =>
            Count(events[p], "acquire") = 1 /\ FileGone(p)

\* C1 amended: a request that passes the boundary checks attempts exactly one
\* creation; unless that creation itself raised, exactly one file was created,
\* and when execute_python returns the file no longer exists unless os.remove
\* raised (the handler then only prints a warning).  This covers every exit
\* path: any outcome of the execution or of the linter, and an exception
\* raised by the write.
C1_OneFileRemovedUnlessRemoveFails ==
    \A p \in Procs :
        Returned(p) /\ PassedBoundary(p) =>
            /\ Count(events[p], "acquire") + Count(events[p], "create_failed") = 1
            /\ Count(events[p], "acquire") = 1 =>
                   \/ FileGone(p)
                   \/ Count(events[p], "release_failed") = 1
            /\ Count(events[p], "release") = 1 => FileGone(p)
            /\ Count(events[p], "create_failed") = 1 => temp_file_path[p] = NoPath

\* C1's case: the write of the code raised, and the file is gone on return
C1_Witness ==
    \E p \in Procs :
        /\ Returned(p) /\ PassedBoundary(p)
        /\ Len(faults[p]) = 1 /\ faults[p][1].detail = NotStr
        /\ Count(events[p], "acquire") = 1
        /\ FileGone(p)

\* a body that is not JSON, or a JSON body of any shape without a 'code' key
Malformed(r) == r.body = "invalid" \/ ~r.has_key

\* C2 as stated: a malformed request is answered 400 with an 'error' field;
\* no temporary file is created and no subprocess is started.
C2_MalformedIs400 ==
    \A p \in Procs :
        Returned(p) /\ Malformed(request[p]) =>
            /\ response[p].status = 400
            /\ "error" \in DOMAIN response[p].body
            /\ events[p] = <<>>
            /\ temp_file_path[p] = NoPath

ReportFields == {"output", "error", "lint_feedback"}

\* C3: once a request has passed the boundary checks the handler always
\* reaches its return and answers 200 with exactly the fields output, error and
\* lint_feedback; a fault raised inside the try block shows as the text
\* "Server Error during processing: {detail}" appended (on a new line) to the
\* error text accumulated before it.
C3_AlwaysReport ==
    \A p \in Procs :
        PassedBoundary(p) =>
            /\ pc[p] \notin {"idle", "done"} => ENABLED Next
            /\ Returned(p) =>
                /\ response[p].status = 200
                /\ DOMAIN response[p].body = ReportFields
                /\ Len(faults[p]) <= 1
                /\ Len(faults[p]) = 1 =>
                       response[p].body.error =
                           Strip(faults[p][1].error
                                 \o <<"\n", "Server Error during processing:", " ">>
                                 \o faults[p][1].detail)

\* C3's case: the workspace could not be created, and the report says so
C3_Witness ==
    \E p \in Procs :
        /\ Returned(p) /\ PassedBoundary(p)
        /\ Len(faults[p]) = 1 /\ faults[p][1].detail = NoSpace
        /\ response[p].status = 200
        /\ response[p].body.error = <<"Server Error during processing:", " ">> \o NoSpace

\* "Timeout Error: Execution exceeded 5 seconds."
TimeoutSentence == <<"Timeout Error: Execution exceeded", " ", "5", " ", "seconds.">>

\* C4 as stated: when the submission does not finish within the deadline the
\* report has an empty output and its error is exactly
\* "Timeout Error: Execution exceeded 5 seconds.".
C4_TimeoutTextExact ==
    \A p \in Procs :
        Returned(p) /\ exec_truth[p].kind = "timeout" =>
            /\ response[p].body.output = <<>>
            /\ response[p].body.error = TimeoutSentence

\* "Process exited with status code {c}."
ExitSentence(c) == <<"Process exited with status code", " ">> \o IntStr(c) \o <<".">>

\* C5 as stated: for an exit code other than 0 the error field is
\* "Process exited with status code {code}." followed by the captured stderr,
\* or the captured stderr alone when it already contains that sentence; for
\* exit code 0 the error field is the trimmed stderr and the output field the
\* trimmed stdout.
C5_ExitCodeText ==
    \A p \in Procs :
        Returned(p) /\ exec_truth[p].kind = "exited" /\ response[p].status = 200 =>
            LET t == exec_truth[p] IN
            /\ t.code # 0 /\ ~Contains(t.stderr, ExitSentence(t.code)) =>
                   response[p].body.error = Strip(ExitSentence(t.code) \o <<" ">> \o t.stderr)
            /\ t.code # 0 /\ Contains(t.stderr, ExitSentence(t.code)) =>
                   response[p].body.error = Strip(t.stderr)
            /\ t.code = 0 =>
                   /\ response[p].body.error = Strip(t.stderr)
                   /\ response[p].body.output = Strip(t.stdout)

\* C7 as stated: a submission whose process ran and exited, with any status
\* code, is never reported with the "Timeout Error" text or with the
\* "Execution Error: Failed to run subprocess" text.
C7_ExitNeverMisreported ==
    \A p \in Procs :
        Returned(p) /\ exec_truth[p].kind \in {"exited", "undecodable"}
                    /\ response[p].status = 200 =>
            /\ ~Contains(response[p].body.error, <<"Timeout Error: Execution exceeded">>)
            /\ ~Contains(response[p].body.error,
                         <<"Execution Error: Failed to run subprocess.">>)

\* the j-th smallest element of a set of numbers
Nth(S, j) == CHOOSE x \in S : Cardinality({y \in S : y < x}) = j - 1

\* the pieces of a text between its newlines
Pieces(s) ==
    LET NL == {i \in 1..Len(s) : s[i] = "\n"}
        k == Cardinality(NL)
        b(j) == IF j = 0 THEN 0 ELSE IF j = k + 1 THEN Len(s) + 1 ELSE Nth(NL, j)
    IN  [j \in 1..(k + 1) |-> SubSeq(s, b(j - 1) + 1, b(j) - 1)]

\* the lines of a text: a newline at the very end ends the last line
TextLines(s) ==
    IF s = <<>> THEN <<>>
    ELSE IF s[Len(s)] = "\n" THEN SubSeq(Pieces(s), 1, Len(Pieces(s)) - 1)
    ELSE Pieces(s)

\* the diagnostic the claim gives for one line: path:line:column:message
Diagnostic(line) ==
    LET C == {i \in 1..Len(line) : line[i] = ":"} IN
    IF Cardinality(C) >= 3
    THEN LET c1 == Nth(C, 1)
             c2 == Nth(C, 2)
             c3 == Nth(C, 3)
         IN  <<"L">> \o SubSeq(line, c1 + 1, c2 - 1) \o <<":">>
             \o SubSeq(line, c2 + 1, c3 - 1) \o <<":", " ">>
             \o Strip(SubSeq(line, c3 + 1, Len(line)))
    ELSE line

\* flake8 has ended and its stdout was captured
LintCaptured(p) ==
    /\ pc[p] \in {"cleanup", "respond", "done"}
    /\ Count(events[p], "linted") = 1
    /\ ~IsNone(lint_result[p].stdout)

\* C6 as stated: the formatting emits exactly one diagnostic per line of the
\* linter's stdout, in order: "L{line}:{column}: {message trimmed}" for a line
\* with three or more colons, the line unchanged otherwise; no line is dropped.
C6_OneDiagnosticPerLine ==
    \A p \in Procs :
        LintCaptured(p) =>
            LET lines == TextLines(Val(lint_result[p].stdout)) IN
            formatted_lines[p] = [i \in 1..Len(lines) |-> Diagnostic(lines[i])]

\* C6 amended: the formatting first trims the whitespace at both ends of the
\* whole stdout and then emits exactly one diagnostic per line of the trimmed
\* text, in order (none for an empty stdout, one empty diagnostic for a stdout
\* of whitespace only): "L{line}:{column}: {message trimmed}" for a line with
\* three or more colons, the line unchanged otherwise; no line of the trimmed
\* text is dropped.
C6_OneDiagnosticPerTrimmedLine ==
    \A p \in Procs :
        LintCaptured(p) =>
            LET out == Val(lint_result[p].stdout)
                lines == Pieces(Strip(out))
            IN  formatted_lines[p] =
                    IF out = <<>> THEN <<>>
                    ELSE [i \in 1..Len(lines) |-> Diagnostic(lines[i])]

\* C6's case: a line of another shape, then a line path:line:column:message
C6_Witness ==
    \E p \in Procs :
        /\ LintCaptured(p)
        /\ Val(lint_result[p].stdout) = <<"f", "\n", ":", ":", ":">>
        /\ formatted_lines[p] = << <<"f">>, <<"L", ":", ":", " ">> >>

Flake8Header == "--- Flake8 Error ---"

\* C8 as stated: when the linter wrote to its error stream or could not be
\* started, lint_feedback holds the formatted diagnostics unchanged, followed
\* by the header "--- Flake8 Error ---" at the start of a line of its own.
C8_HeaderOnOwnLine ==
    \A p \in Procs :
        pc[p] \in {"cleanup", "respond", "done"} /\ Truthy(lint_result[p].stderr) =>
            LET fb == lint_feedback[p]
                d == Join(<<"\n">>, formatted_lines[p])
                h == IF d = <<>> THEN 1 ELSE Len(d) + 2
            IN  /\ Len(fb) >= h
                /\ SubSeq(fb, 1, Len(d)) = d
                /\ fb[h] = Flake8Header
                /\ h > 1 => fb[h - 1] = "\n"

PipelineOrder == <<"acquire", "execute", "executed", "lint", "linted", "release", "respond">>

\* the steps of es are in the order of the pipeline
InPipelineOrder(es) ==
    \A i, j \in 1..Len(PipelineOrder) :
        i < j => Before(es, PipelineOrder[i], PipelineOrder[j])

\* the file of p exists and holds the whole source
HoldsSource(p) ==
    /\ temp_file_path[p] # NoPath
    /\ code[p].type = "str"
    /\ fs[temp_file_path[p]] = code[p].s

Holding(p) ==
    /\ pc[p] \in {"write", "exec", "executing", "lint", "linting", "cleanup"}
    /\ temp_file_path[p] # NoPath

\* C10: under any interleaving of concurrently handled submissions, each
\* submission owns at most one workspace, two submissions that hold a
\* workspace hold different names, the file a submission holds exists and is
\* the one it created, and the write, the runs and the removal of a submission
\* touch no file created by another submission.
C10_WorkspacesIsolated ==
    /\ \A p \in Procs :
           /\ Cardinality({n \in Names : owner[n] = p}) <= 1
           /\ touched[p] \subseteq {p}
           /\ Holding(p) =>
                  /\ owner[temp_file_path[p]] = p
                  /\ fs[temp_file_path[p]] # Absent
           /\ pc[p] \in {"exec", "executing", "lint", "linting"} => HoldsSource(p)
    /\ \A p, q \in Procs :
           p # q /\ Holding(p) /\ Holding(q) => temp_file_path[p] # temp_file_path[q]

\* C10's case: one submission is being executed while another is being linted
C10_Witness ==
    \E p, q \in Procs :
        /\ p # q
        /\ pc[p] = "executing" /\ pc[q] = "linting"
        /\ temp_file_path[p] # temp_file_path[q]
        /\ HoldsSource(p) /\ HoldsSource(q)

====
